---- MODULE Spec2Model ----
(***************************************************************************)
(* SyncroSpace: the administrative meeting actions                         *)
(* (AdminMeetingClientSimpleService / AdminMeetingControlService) and the  *)
(* peer-to-peer signaling managers (WebRTCMeshManager,                     *)
(* SimpleWebRTCManager), modelled as state machines over the document      *)
(* database they share.                                                    *)
(***************************************************************************)
EXTENDS Integers, Sequences, FiniteSets, TLC

VARIABLES
    meeting,    \* the meetings/{meetingId} document
    spaces,     \* the spaces collection: space id -> document
    users,      \* the users collection: document id -> document
    calls,      \* the administrative calls: admin -> the call's local state
    ncalls,     \* administrative calls started so far
    pdocs,      \* the room's participants collection: the ids of its documents
    autoOwner,  \* the userId field of each auto-id participant document
    offers,     \* the room's offers collection
    answers,    \* the room's answers collection
    sess,       \* the manager instances (sessions), in order of construction
    nevict,     \* participant documents removed so far
    page,       \* the VirtualSpace page of each user: call state and handle refs
    candidates, \* the room's candidates collection
    joins       \* the meeting page of each user: the state of handleJoinMeeting

adminVars == <<meeting, spaces, users, calls, ncalls>>

rtcVars == <<pdocs, autoOwner, offers, answers, sess, nevict, page, candidates, joins>>

vars ==
    <<meeting, spaces, users, calls, ncalls, pdocs, autoOwner, offers, answers, sess, nevict,
      page, candidates, joins>>

----------------------------------------------------------------------------
(* Bounds of the model. *)

\* Longest attendee list of the meeting in the initial state.
MaxAttendees == 2

\* Administrative calls started in one behaviour.
MaxCalls == 2

\* Manager instances constructed in one behaviour of the membership
\* specification.
MaxSessions == 3

\* Manager instances constructed in one behaviour of the signaling
\* specification.
MaxSignalSessions == 2

\* Manager instances constructed in one behaviour of the page
\* specification.
MaxPageSessions == 4

\* Participant documents created with an auto-generated id.
MaxAutoDocs == 2

\* setRemoteDescription calls followed on one peer connection.
MaxSetRemote == 2

\* Participant documents removed in one behaviour.
MaxEvictions == 1

\* Scripted answer records written in one behaviour.
MaxAnswers == 1

\* Manager instances constructed in the candidate-exchange specification.
MaxIceSessions == 2

----------------------------------------------------------------------------
(* Identifiers. *)

UserIds == {"u1", "u2", "u3"}

\* The users whose browsers open the room (user.uid).
Peers == {"A", "B"}

\* The users of a room with a third participant.
AllPeers == Peers \cup {"C"}

Admins == {"adm1", "adm2"}

SpaceIds == {"s1", "s2"}

\* The value of a meeting's spaceId field when the meeting has no space.
NoSpace == "none"

\* The users who open the meeting page.
Joiners == {"u1", "u2"}

\* The identifiers that name no user document (an invited address that
\* never signed up).
NoDocument == {"u3"}

\* The email field of each user document. removeAttendeeFromMeeting of the
\* client service finds the user by this field, every other lookup is by
\* document id.
EmailOf(u) == CASE u = "u1" -> "u1" [] u = "u2" -> "u3" [] OTHER -> "u2"

----------------------------------------------------------------------------
(* Pure helpers. *)

Range(s) == {s[k] : k \in 1..Len(s)}

RECURSIVE SeqsUpTo(_, _)
SeqsUpTo(S, n) ==
    IF n = 0 THEN {<<>>}
    ELSE LET shorter == SeqsUpTo(S, n - 1)
         IN shorter \cup {Append(s, x) : s \in {t \in shorter : Len(t) = n - 1}, x \in S}

RECURSIVE FilterSeq(_, _)
FilterSeq(s, x) ==
    IF s = <<>> THEN <<>>
    ELSE IF Head(s) = x THEN FilterSeq(Tail(s), x)
         ELSE <<Head(s)>> \o FilterSeq(Tail(s), x)

RECURSIVE Count(_, _)
Count(s, x) ==
    IF s = <<>> THEN 0
    ELSE (IF Head(s) = x THEN 1 ELSE 0) + Count(Tail(s), x)

RECURSIVE Dedupe(_, _)
Dedupe(s, seen) ==
    IF s = <<>> THEN <<>>
    ELSE IF Head(s) \in seen THEN Dedupe(Tail(s), seen)
         ELSE <<Head(s)>> \o Dedupe(Tail(s), seen \cup {Head(s)})

\* A plausible bug: the list is iterated as it is, duplicates included.
UniqueUserIdsNoSet(attendees, creatorId) == Append(attendees, creatorId)

\* const allUserIds = [...attendees, creatorId];
\* const uniqueUserIds = [...new Set(allUserIds)];
UniqueUserIds(attendees, creatorId) == Dedupe(Append(attendees, creatorId), {})

\* A plausible bug: the filter keeps the entry it should drop.
UpdatedAttendeesInverted(attendees, attendee) ==
    IF attendee \in Range(attendees) THEN <<attendee>> ELSE <<>>

\* attendees.filter((email) => email !== attendeeEmail)
UpdatedAttendees(attendees, attendee) == FilterSeq(attendees, attendee)

\* A plausible bug: the filter keeps the entries of the space (===).
UpdatedPendingSpacesInverted(pending, spaceId) == pending \cap {spaceId}

\* currentPendingSpaces.filter((p) => p?.spaceId !== spaceId)
UpdatedPendingSpaces(pending, spaceId) == pending \ {spaceId}

\* A plausible bug: the marker is not appended.
UpdatedHiddenMeetingsKept(hidden, spaceId) == hidden

\* spaceId ? [...currentHiddenMeetings, spaceId] : currentHiddenMeetings
UpdatedHiddenMeetings(hidden, spaceId) ==
    IF spaceId # NoSpace THEN Append(hidden, spaceId) ELSE hidden

----------------------------------------------------------------------------
(* The documents. *)

AbsentMeeting ==
    [exists |-> FALSE, attendees |-> <<>>, creatorId |-> "u1", spaceId |-> NoSpace,
     status |-> "deleted", adminActions |-> <<>>]

NoResult == [success |-> FALSE, message |-> "", affectedUsers |-> <<>>]

NoUserData == [pendingSpaces |-> {}, hiddenMeetings |-> <<>>]

IdleCall ==
    [op |-> "none", svc |-> "client", pc |-> "idle", target |-> "u1",
     spaceId |-> NoSpace, attendees |-> <<>>, creatorId |-> "u1",
     uniq |-> <<>>, i |-> 1, userDoc |-> "u1", userData |-> NoUserData,
     affected |-> <<>>, attempts |-> <<>>, updates |-> <<>>, failed |-> <<>>,
     wroteMeeting |-> FALSE, wroteSpace |-> FALSE, preAttendees |-> <<>>,
     stamp |-> 0, result |-> NoResult]

Idle(c) == c.pc \in {"idle", "done"}

\* The result object of a return statement.
Return(c, success, message, affectedUsers) ==
    [c EXCEPT !.pc = "done",
              !.result = [success |-> success, message |-> message,
                          affectedUsers |-> affectedUsers]]

\* The outer catch block of each operation.
FailureMessage(op) ==
    CASE op = "end" -> "Failed to end meeting"
      [] op = "delete" -> "Failed to delete meeting"
      [] OTHER -> "Failed to remove attendee from meeting"

\* A plausible bug: the catch block rethrows and the call ends with no
\* result.
OuterCatchPropagates(c) == [c EXCEPT !.pc = "threw"]

\* catch (error) { console.error(...); return { success: false, ... } }
OuterCatch(c) == Return(c, FALSE, FailureMessage(c.op), <<>>)

\* The adminActions entry of an operation.
AdminAction(c, action, affectedUsers) ==
    [action |-> action, adminId |-> c.admin, stamp |-> c.stamp,
     affectedUsers |-> affectedUsers]

\* arrayUnion(entry): appended unless an equal element is in the array.
ArrayUnion(arr, entry) == IF entry \in Range(arr) THEN arr ELSE Append(arr, entry)

----------------------------------------------------------------------------
(* The initial database: one meeting, its space, the user documents. *)

InitAdmin ==
    /\ \E att \in SeqsUpTo(UserIds, MaxAttendees), cr \in UserIds, sp \in {"s1", NoSpace} :
           meeting = [exists |-> TRUE, attendees |-> att, creatorId |-> cr,
                      spaceId |-> sp, status |-> "scheduled", adminActions |-> <<>>]
    /\ spaces = [s \in SpaceIds |-> [exists |-> TRUE, activeMeeting |-> TRUE,
                                     members |-> {"u1"}]]
    /\ users = [u \in UserIds |->
                  [exists |-> u \notin NoDocument, email |-> EmailOf(u),
                   pendingSpaces |-> IF u = "u1" THEN {"s1", "s2"} ELSE {"s1"},
                   hiddenMeetings |-> <<>>]]
    /\ calls = [a \in Admins |-> IdleCall @@ [admin |-> a]]
    /\ ncalls = 0

----------------------------------------------------------------------------
(* The start of a call. Calls of the user interface are sequential: a      *)
(* handler awaits the service before it reports the result, and the        *)
(* result of an earlier call is gone when the next one starts.             *)

StartCall(a, op, svc, target) ==
    /\ ncalls < MaxCalls
    /\ \A b \in Admins : Idle(calls[b])
    /\ ncalls' = ncalls + 1
    /\ calls' = [b \in Admins |->
                   IF b = a
                   THEN [IdleCall @@ [admin |-> a] EXCEPT
                           !.op = op, !.svc = svc, !.pc = "readMeeting",
                           !.target = target, !.stamp = ncalls + 1,
                           !.preAttendees = meeting.attendees]
                   ELSE IdleCall @@ [admin |-> b]]
    /\ UNCHANGED <<meeting, spaces, users>>
    /\ UNCHANGED rtcVars

\* The two services differ in removeAttendeeFromMeeting alone.
StartEnd(a) == StartCall(a, "end", "client", "u1")

StartDelete(a) == StartCall(a, "delete", "client", "u1")

StartRemove(a) ==
    \E svc \in {"client", "control"}, target \in UserIds : StartCall(a, "remove", svc, target)

----------------------------------------------------------------------------
(* The steps of the operations: one action per awaited database call. *)

\* The dashboard loop starts: uniqueUserIds is computed, affectedUsers = [].
EnterLoop(c) ==
    [c EXCEPT !.pc = "userRead", !.uniq = UniqueUserIds(c.attendees, c.creatorId),
              !.i = 1, !.affected = <<>>]

\* A plausible bug: endMeetingForAllUsers reports failure when the update
\* of some user failed.
AfterLoopStrict(c) ==
    IF c.op = "end"
    THEN Return(c, c.failed = <<>>, "Meeting ended successfully", c.affected)
    ELSE [c EXCEPT !.pc = "deleteMeeting"]

\* After the loop: endMeetingForAllUsers returns, deleteMeetingCompletely
\* goes on to delete the meeting document.
AfterLoop(c) ==
    IF c.op = "end"
    THEN Return(c, TRUE, "Meeting ended successfully", c.affected)
    ELSE [c EXCEPT !.pc = "deleteMeeting"]

\* The end of one iteration of the loop.
NextUser(c) ==
    IF c.i + 1 > Len(c.uniq) THEN AfterLoop(c)
    ELSE [c EXCEPT !.pc = "userRead", !.i = c.i + 1]

\* A plausible bug: a failed user update leaves through the outer catch.
UserCatchRethrows(c) == OuterCatch([c EXCEPT !.failed = Append(@, c.uniq[c.i])])

\* catch (error) { console.error(`Error updating user ${userId}:`, error); }
UserCatch(c) == NextUser([c EXCEPT !.failed = Append(@, c.uniq[c.i])])

\* getDocs(query(collection(db, 'meetings'), where('__name__', '==', meetingId)))
ReadMeeting(a) ==
    LET c == calls[a] IN
    /\ c.pc = "readMeeting"
    /\ UNCHANGED <<meeting, spaces, users, ncalls>>
    /\ UNCHANGED rtcVars
    /\ \E ok \in BOOLEAN :
         calls' = [calls EXCEPT ![a] =
           IF ~ok THEN OuterCatch(c)
           ELSE IF ~meeting.exists THEN Return(c, FALSE, "Meeting not found", <<>>)
           ELSE LET d == [c EXCEPT !.spaceId = meeting.spaceId,
                                   !.attendees = meeting.attendees,
                                   !.creatorId = meeting.creatorId]
                IN IF c.op = "delete" THEN EnterLoop(d)
                   ELSE [d EXCEPT !.pc = "updateMeeting"]]

\* updateDoc(meetingRef, ...) of endMeetingForAllUsers and of
\* removeAttendeeFromMeeting; updateDoc rejects when the document is absent.
UpdateMeeting(a) ==
    LET c == calls[a] IN
    /\ c.pc = "updateMeeting"
    /\ UNCHANGED <<spaces, users, ncalls>>
    /\ UNCHANGED rtcVars
    /\ \E ok \in BOOLEAN :
         IF ok /\ meeting.exists
         THEN IF c.op = "end"
              THEN /\ meeting' = [meeting EXCEPT
                         !.status = "ended",
                         !.adminActions =
                             ArrayUnion(@, AdminAction(c, "end_meeting", c.attendees))]
                   /\ calls' = [calls EXCEPT ![a] =
                         LET d == [c EXCEPT !.wroteMeeting = TRUE]
                         IN IF c.spaceId # NoSpace THEN [d EXCEPT !.pc = "updateSpace"]
                            ELSE EnterLoop(d)]
              ELSE /\ meeting' = [meeting EXCEPT
                         !.attendees = UpdatedAttendees(c.attendees, c.target),
                         !.adminActions =
                             ArrayUnion(@, AdminAction(c, "remove_attendee", <<c.target>>))]
                   /\ calls' = [calls EXCEPT ![a] =
                         [c EXCEPT !.wroteMeeting = TRUE, !.pc = "removeUserRead"]]
         ELSE /\ calls' = [calls EXCEPT ![a] = OuterCatch(c)]
              /\ UNCHANGED meeting

\* updateDoc(spaceRef, {activeMeeting: false, ..., members: []})
UpdateSpace(a) ==
    LET c == calls[a] IN
    /\ c.pc = "updateSpace"
    /\ UNCHANGED <<meeting, users, ncalls>>
    /\ UNCHANGED rtcVars
    /\ \E ok \in BOOLEAN :
         IF ok /\ spaces[c.spaceId].exists
         THEN /\ spaces' = [spaces EXCEPT ![c.spaceId].activeMeeting = FALSE,
                                          ![c.spaceId].members = {}]
              /\ calls' = [calls EXCEPT ![a] = EnterLoop([c EXCEPT !.wroteSpace = TRUE])]
         ELSE /\ calls' = [calls EXCEPT ![a] = OuterCatch(c)]
              /\ UNCHANGED spaces

\* The loop body up to the read:
\* getDocs(query(collection(db, 'users'), where('__name__', '==', userId)))
UserRead(a) ==
    LET c == calls[a]
        u == c.uniq[c.i]
        d == [c EXCEPT !.attempts = Append(@, u)]
    IN
    /\ c.pc = "userRead"
    /\ UNCHANGED <<meeting, spaces, users, ncalls>>
    /\ UNCHANGED rtcVars
    /\ \E ok \in BOOLEAN :
         calls' = [calls EXCEPT ![a] =
           IF ~ok THEN UserCatch(d)
           ELSE IF ~users[u].exists THEN NextUser(d)
           ELSE [d EXCEPT !.pc = "userWrite", !.userDoc = u,
                          !.userData = [pendingSpaces |-> users[u].pendingSpaces,
                                        hiddenMeetings |-> users[u].hiddenMeetings]]]

\* A plausible repair: the update is computed from the document as it is at the
\* time of the write (a transaction), not from the data the call read.
WrittenUserAtomic(doc, c) ==
    [doc EXCEPT !.pendingSpaces = UpdatedPendingSpaces(doc.pendingSpaces, c.spaceId),
                !.hiddenMeetings = UpdatedHiddenMeetings(doc.hiddenMeetings, c.spaceId)]

\* The document written by updateDoc(userRef, {pendingSpaces, hiddenMeetings}).
WrittenUser(doc, c) ==
    [doc EXCEPT !.pendingSpaces = UpdatedPendingSpaces(c.userData.pendingSpaces, c.spaceId),
                !.hiddenMeetings = UpdatedHiddenMeetings(c.userData.hiddenMeetings, c.spaceId)]

\* The loop body from the write: updateDoc(userRef, ...); affectedUsers.push(userId)
UserWrite(a) ==
    LET c == calls[a]
        u == c.userDoc
        d == [c EXCEPT !.updates = Append(@, u), !.userData = NoUserData]
    IN
    /\ c.pc = "userWrite"
    /\ UNCHANGED <<meeting, spaces, ncalls>>
    /\ UNCHANGED rtcVars
    /\ \E ok \in BOOLEAN :
         IF ok /\ users[u].exists
         THEN /\ users' = [users EXCEPT ![u] = WrittenUser(@, c)]
              /\ calls' = [calls EXCEPT ![a] =
                             NextUser([d EXCEPT !.affected = Append(@, u)])]
         ELSE /\ calls' = [calls EXCEPT ![a] = UserCatch(d)]
              /\ UNCHANGED users

\* deleteDoc(doc(db, 'meetings', meetingId))
DeleteMeeting(a) ==
    LET c == calls[a] IN
    /\ c.pc = "deleteMeeting"
    /\ UNCHANGED <<spaces, users, ncalls>>
    /\ UNCHANGED rtcVars
    /\ \E ok \in BOOLEAN :
         IF ok
         THEN /\ meeting' = AbsentMeeting
              /\ calls' = [calls EXCEPT ![a] =
                   IF c.spaceId # NoSpace
                   THEN [c EXCEPT !.wroteMeeting = TRUE, !.pc = "deleteSpace"]
                   ELSE Return([c EXCEPT !.wroteMeeting = TRUE], TRUE,
                               "Meeting deleted completely", c.affected)]
         ELSE /\ calls' = [calls EXCEPT ![a] = OuterCatch(c)]
              /\ UNCHANGED meeting

\* deleteDoc(doc(db, 'spaces', spaceId))
DeleteSpace(a) ==
    LET c == calls[a] IN
    /\ c.pc = "deleteSpace"
    /\ UNCHANGED <<meeting, users, ncalls>>
    /\ UNCHANGED rtcVars
    /\ \E ok \in BOOLEAN :
         IF ok
         THEN /\ spaces' = [spaces EXCEPT ![c.spaceId].exists = FALSE]
              /\ calls' = [calls EXCEPT ![a] =
                   Return([c EXCEPT !.wroteSpace = TRUE], TRUE,
                          "Meeting deleted completely", c.affected)]
         ELSE /\ calls' = [calls EXCEPT ![a] = OuterCatch(c)]
              /\ UNCHANGED spaces

\* A plausible bug: the lookup returns every user document.
FoundUsersAll(svc, attendee) == {u \in UserIds : users[u].exists}

\* The documents of the lookup of removeAttendeeFromMeeting: by the email
\* field in the client service, by document id in the control service.
FoundUsers(svc, attendee) ==
    IF svc = "client"
    THEN {u \in UserIds : users[u].exists /\ users[u].email = attendee}
    ELSE {u \in UserIds : users[u].exists /\ u = attendee}

\* getDocs(query(collection(db, 'users'), where('email', '==', attendeeEmail)))
RemoveUserRead(a) ==
    LET c == calls[a]
        found == FoundUsers(c.svc, c.target)
    IN
    /\ c.pc = "removeUserRead"
    /\ UNCHANGED <<meeting, spaces, users, ncalls>>
    /\ UNCHANGED rtcVars
    /\ \E ok \in BOOLEAN :
         IF ~ok THEN calls' = [calls EXCEPT ![a] = OuterCatch(c)]
         ELSE IF found = {}
         THEN calls' = [calls EXCEPT ![a] =
                          Return(c, TRUE, "Attendee removed from meeting successfully.", <<>>)]
         ELSE \E u \in found :
                calls' = [calls EXCEPT ![a] =
                   [c EXCEPT !.pc = "removeUserWrite", !.userDoc = u,
                             !.userData = [pendingSpaces |-> users[u].pendingSpaces,
                                           hiddenMeetings |-> users[u].hiddenMeetings]]]

\* A plausible bug: the update is applied to every user document.
RemoveWriteTargetsAll(c) == {u \in UserIds : users[u].exists}

\* userRef = doc(db, 'users', userSnapshot.docs[0].id)
RemoveWriteTargets(c) == {c.userDoc}

\* updateDoc(userRef, {pendingSpaces, hiddenMeetings, lastUpdated})
RemoveUserWrite(a) ==
    LET c == calls[a]
        d == [c EXCEPT !.updates = Append(@, c.userDoc), !.userData = NoUserData]
    IN
    /\ c.pc = "removeUserWrite"
    /\ UNCHANGED <<meeting, spaces, ncalls>>
    /\ UNCHANGED rtcVars
    /\ \E ok \in BOOLEAN :
         IF ok /\ users[c.userDoc].exists
         THEN /\ users' = [u \in UserIds |->
                             IF u \in RemoveWriteTargets(c) THEN WrittenUser(users[u], c)
                             ELSE users[u]]
              /\ calls' = [calls EXCEPT ![a] =
                   Return(d, TRUE, "Attendee removed from meeting successfully.", <<>>)]
         ELSE /\ calls' = [calls EXCEPT ![a] = OuterCatch(d)]
              /\ UNCHANGED users

----------------------------------------------------------------------------
(* The specification of the administrative actions. *)

\* The page after mount: useState(false), useRef(null). mesh and simple
\* hold the manager a handle ref points to (0: null); meshBuilt and
\* simpleBuilt are the rooms the running startOrJoinCall has constructed.
IdlePage ==
    [pc |-> "idle", isInCall |-> FALSE, mesh |-> 0, simple |-> 0, toast |-> "none",
     meshBuilt |-> FALSE, simpleBuilt |-> FALSE]

\* The meeting page before Join is clicked: seen is the spaceId of meetingData
\* (the last snapshot useDocumentData has delivered), spaceId the local
\* variable of handleJoinMeeting, redirect the space of window.location.href.
IdleJoin == [pc |-> "idle", seen |-> NoSpace, spaceId |-> NoSpace, redirect |-> NoSpace]

\* The room before anybody joined.
RtcIdle ==
    /\ page = [u \in Peers |-> IdlePage]
    /\ pdocs = {}
    /\ autoOwner = <<>>
    /\ offers = {}
    /\ answers = {}
    /\ sess = <<>>
    /\ nevict = 0
    /\ candidates = {}
    /\ joins = [u \in Joiners |-> IdleJoin]

Init == InitAdmin /\ RtcIdle

Next ==
    \E a \in {"adm1"} :
        \/ StartEnd(a)
        \/ StartDelete(a)
        \/ StartRemove(a)
        \/ ReadMeeting(a)
        \/ UpdateMeeting(a)
        \/ UpdateSpace(a)
        \/ UserRead(a)
        \/ UserWrite(a)
        \/ DeleteMeeting(a)
        \/ DeleteSpace(a)
        \/ RemoveUserRead(a)
        \/ RemoveUserWrite(a)

Spec == Init /\ [][Next]_vars

----------------------------------------------------------------------------
(* The administrative actions: properties. *)

\* attendees \cup {creatorId} of the meeting a call has read.
UserSet(c) == Range(c.attendees) \cup {c.creatorId}

\* C1: a call of endMeetingForAllUsers never enters the dashboard loop twice
\* for one id nor for an id outside attendees \cup {creatorId}, and issues at
\* most one user update per id; a call that returns success (its meeting and
\* space writes went through, so it got to the loop) has entered the loop
\* exactly once for every distinct id of attendees \cup {creatorId}.
C1_OneUpdatePerUniqueId ==
    \A a \in Admins :
        LET c == calls[a] IN
        c.op = "end" =>
            /\ Range(c.attempts) \subseteq UserSet(c)
            /\ \A u \in UserSet(c) : Count(c.attempts, u) <= 1 /\ Count(c.updates, u) <= 1
            /\ (c.pc = "done" /\ c.result.success) =>
                   \A u \in UserSet(c) : Count(c.attempts, u) = 1

\* An end call returned success for a meeting whose list names an id twice
\* (the creator is an attendee too), and updated a user.
C1_Witness ==
    \E a \in Admins :
        LET c == calls[a] IN
        /\ c.op = "end" /\ c.pc = "done" /\ c.result.success
        /\ Len(c.attendees) = 2
        /\ Cardinality(UserSet(c)) < Len(c.attendees) + 1
        /\ c.updates # <<>>

\* C2: in endMeetingForAllUsers and deleteMeetingCompletely, once the update
\* of a user has failed, the loop still goes through every other id of the
\* unique-user set: when the call has left the loop every id was attempted,
\* and the failure alone never makes endMeetingForAllUsers return failure.
C2_UserFailureDoesNotStopLoop ==
    \A a \in Admins :
        LET c == calls[a] IN
        (c.op \in {"end", "delete"} /\ c.failed # <<>>) =>
            /\ c.pc \notin {"userRead", "userWrite"} => Range(c.attempts) = UserSet(c)
            /\ (c.op = "end" /\ c.pc = "done") => c.result.success
            /\ c.pc = "userRead" => c.i = Len(c.attempts) + 1

\* The update of the first user failed and a user after it was updated.
C2_Witness ==
    \E a \in Admins :
        LET c == calls[a] IN
        /\ c.op \in {"end", "delete"} /\ c.pc \in {"done", "deleteMeeting"}
        /\ Len(c.attempts) >= 2
        /\ c.attempts[1] \in Range(c.failed)
        /\ c.attempts[2] \in Range(c.affected)

\* C3: when a call of removeAttendeeFromMeeting has returned, the attendee
\* list holds no id it did not hold before the call and has lost no id but
\* the removed one; when the call wrote the meeting (in particular when it
\* returns success) the list is set-equal to the list before the call minus
\* the removed id.
C3_RemoveLeavesOthers ==
    \A a \in Admins :
        LET c == calls[a]
            before == Range(c.preAttendees)
            after == Range(meeting.attendees)
        IN (c.op = "remove" /\ c.pc = "done") =>
               /\ after \subseteq before
               /\ before \ after \subseteq {c.target}
               /\ c.result.success => c.wroteMeeting
               /\ c.wroteMeeting => after = before \ {c.target}

\* A remove call returned success; the removed id was on the list and
\* another id stays on it.
C3_Witness ==
    \E a \in Admins :
        LET c == calls[a] IN
        /\ c.op = "remove" /\ c.pc = "done" /\ c.result.success
        /\ c.target \in Range(c.preAttendees)
        /\ Range(meeting.attendees) # {}

\* The removed attendee's user documents, as the call's lookup names them.
IsRemovedAttendee(u, c) ==
    IF c.svc = "client" THEN users[u].email = c.target ELSE u = c.target

\* C4: no step of removeAttendeeFromMeeting changes pendingSpaces or
\* hiddenMeetings of a user other than the removed attendee.
C4_RemoveFrame ==
    [][\A a \in Admins :
          (calls[a].op = "remove" /\ calls'[a] # calls[a] /\ calls'[a].op = "remove") =>
              \A u \in UserIds :
                  ~IsRemovedAttendee(u, calls[a]) =>
                      /\ users'[u].pendingSpaces = users[u].pendingSpaces
                      /\ users'[u].hiddenMeetings = users[u].hiddenMeetings]_vars

\* A remove call updated the removed attendee's dashboard while another
\* user still has the meeting's space pending.
C4_Witness ==
    \E a \in Admins :
        LET c == calls[a] IN
        /\ c.op = "remove" /\ c.pc = "done" /\ c.result.success
        /\ c.spaceId = "s1" /\ c.updates # <<>>
        /\ "s1" \in Range(users[c.userDoc].hiddenMeetings)
        /\ \E u \in UserIds \ {c.userDoc} :
               users[u].exists /\ "s1" \in users[u].pendingSpaces

\* C5: after deleteMeetingCompletely has deleted a meeting that has a space,
\* the space is absent too (in no outcome the meeting is deleted and its
\* space still exists).
C5_MeetingAndSpaceBothAbsent ==
    \A a \in Admins :
        LET c == calls[a] IN
        (c.op = "delete" /\ c.pc = "done" /\ c.spaceId # NoSpace /\ ~meeting.exists) =>
            ~spaces[c.spaceId].exists

\* C6: after deleteMeetingCompletely on a meeting with a space, hiddenMeetings
\* of every user the call reports as affected (and, while the call runs, of
\* every user already on its affectedUsers list) holds the space's id.
C6_AffectedUsersHidden ==
    \A a \in Admins :
        LET c == calls[a] IN
        (c.op = "delete" /\ c.spaceId # NoSpace) =>
            /\ \A u \in Range(c.affected) : c.spaceId \in Range(users[u].hiddenMeetings)
            /\ c.pc = "done" =>
                   \A u \in Range(c.result.affectedUsers) :
                       c.spaceId \in Range(users[u].hiddenMeetings)

\* A delete call returned success and reports two users as affected.
C6_Witness ==
    \E a \in Admins :
        LET c == calls[a] IN
        /\ c.op = "delete" /\ c.pc = "done" /\ c.result.success
        /\ c.spaceId = "s1"
        /\ Len(c.result.affectedUsers) >= 2

----------------------------------------------------------------------------
(* The signaling managers: the room of one space, its participants,        *)
(* offers and answers collections, and the manager instances of the        *)
(* users' browsers.                                                        *)

\* The ids Firestore generates for addDoc, in order of creation.
AutoNames == <<"n1", "n2", "n3", "n4", "n5">>

AutoIds == {AutoNames[k] : k \in 1..MaxAutoDocs}

\* The ids of participant documents: a user id (setDoc, updateDoc on
\* participants/{userId}) or a generated id (addDoc).
DocIds == AllPeers \cup AutoIds

\* The userId field of a participant document.
DocUser(d) ==
    IF d \in AllPeers THEN d
    ELSE autoOwner[CHOOSE k \in 1..MaxAutoDocs : AutoNames[k] = d]

\* An entry of the connections map: the peer connection (the gen-th one
\* its manager made for that participant id), whether
\* currentRemoteDescription is set, the setRemoteDescription calls made.
NoLink == [gen |-> 0, remote |-> FALSE, calls |-> 0]

\* new WebRTCMeshManager(...) / new SimpleWebRTCManager(...)
NewSession(u, variant) ==
    [user |-> u, variant |-> variant, status |-> "live", seen |-> {},
     conns |-> [d \in DocIds |-> NoLink], made |-> [d \in DocIds |-> 0],
     tasks |-> {}, watch |-> {}, applying |-> {}, iceApplied |-> {}]

Sessions == 1..Len(sess)

\* The participants listener of a manager is subscribed.
Subscribed(ss) == ss.status \in {"live", "leaked"}

\* The keys of the connections map.
Linked(ss) == {d \in DocIds : ss.conns[d] # NoLink}

\* A user starts a call when the page holds no room handle of theirs.
CanJoin(u, max) ==
    /\ Len(sess) < max
    /\ \A k \in Sessions : sess[k].user = u => sess[k].status # "live"

\* WebRTCMeshManager.initialize: addParticipant (updateDoc on
\* participants/{userId}; when that document is absent the catch handler
\* calls addDoc, which creates a document with a generated id), then the
\* participants listener.
MeshRoom(u) ==
    /\ IF u \in pdocs
       THEN UNCHANGED <<pdocs, autoOwner>>
       ELSE /\ Len(autoOwner) < MaxAutoDocs
            /\ pdocs' = pdocs \cup {AutoNames[Len(autoOwner) + 1]}
            /\ autoOwner' = Append(autoOwner, u)
    /\ sess' = Append(sess, NewSession(u, "mesh"))

\* createMeshRoom called by a page that holds no room handle.
MeshInitialize(u, max) ==
    /\ CanJoin(u, max)
    /\ MeshRoom(u)
    /\ UNCHANGED <<offers, answers, nevict>>
    /\ UNCHANGED <<adminVars, page, candidates, joins>>

\* SimpleWebRTCManager.initialize: the participants listener, then
\* addCurrentUser (setDoc on participants/{userId}).
SimpleRoom(u) ==
    /\ pdocs' = pdocs \cup {u}
    /\ sess' = Append(sess, NewSession(u, "simple"))

\* createSimpleRoom called by a page that holds no room handle.
SimpleInitialize(u, max) ==
    /\ CanJoin(u, max)
    /\ SimpleRoom(u)
    /\ UNCHANGED <<autoOwner, offers, answers, nevict>>
    /\ UNCHANGED <<adminVars, page, candidates, joins>>

\* handleParticipantJoined up to the first await: a new peer connection is
\* stored under the participant id and createOffer starts.
HandleParticipantJoined(ss, d) ==
    [ss EXCEPT !.conns[d] = [NoLink EXCEPT !.gen = ss.made[d] + 1],
               !.made[d] = @ + 1,
               !.tasks = @ \cup {[doc |-> d, gen |-> ss.made[d] + 1, stage |-> "local"]}]

\* A plausible bug: every connection is closed, as cleanup does.
HandleParticipantLeftAll(ss, d) == [ss EXCEPT !.conns = [e \in DocIds |-> NoLink]]

\* handleParticipantLeft: connection.close(); connections.delete(participantId)
HandleParticipantLeft(ss, d) == [ss EXCEPT !.conns[d] = NoLink]

\* The answer record handleOffer writes for the offer of participant d
\* (updateDoc on answers/{from}_{to}, then addDoc): from = currentUserId,
\* to = participantId. Nothing calls handleOffer, and the simple manager has
\* no counterpart, so no step of a manager writes this record.
HandleOffer(ss, d) == [from |-> ss.user, to |-> d]

\* A plausible repair: the manager answers the participant it has just
\* connected to, as handleOffer would.
DeliverAddedAnswering(k, d) ==
    /\ Subscribed(sess[k])
    /\ d \in pdocs \ sess[k].seen
    /\ sess' = [sess EXCEPT ![k] =
                  LET ss == [sess[k] EXCEPT !.seen = @ \cup {d}]
                  IN IF d # ss.user THEN HandleParticipantJoined(ss, d) ELSE ss]
    /\ answers' = IF d # sess[k].user THEN answers \cup {HandleOffer(sess[k], d)}
                  ELSE answers
    /\ UNCHANGED <<pdocs, autoOwner, offers, nevict>>
    /\ UNCHANGED <<adminVars, page, candidates, joins>>

\* The participants listener: change.type === 'added'.
DeliverAdded(k, d) ==
    /\ Subscribed(sess[k])
    /\ d \in pdocs \ sess[k].seen
    /\ sess' = [sess EXCEPT ![k] =
                  LET ss == [sess[k] EXCEPT !.seen = @ \cup {d}]
                  IN IF d # ss.user THEN HandleParticipantJoined(ss, d) ELSE ss]
    /\ UNCHANGED <<pdocs, autoOwner, offers, answers, nevict>>
    /\ UNCHANGED <<adminVars, page, candidates, joins>>

\* The participants listener: change.type === 'removed'.
DeliverRemoved(k, d) ==
    /\ Subscribed(sess[k])
    /\ d \in sess[k].seen \ pdocs
    /\ sess' = [sess EXCEPT ![k] =
                  HandleParticipantLeft([sess[k] EXCEPT !.seen = @ \ {d}], d)]
    /\ UNCHANGED <<pdocs, autoOwner, offers, answers, nevict>>
    /\ UNCHANGED <<adminVars, page, candidates, joins>>

\* The offer document a manager writes. Mesh: updateDoc on
\* offers/{from}_{to} finds no document and the catch handler calls addDoc.
\* Simple: setDoc on offers/{to}.
OfferDoc(ss, d) ==
    [key |-> IF ss.variant = "mesh" THEN "auto" ELSE d, from |-> ss.user, to |-> d]

\* createOffer after handleParticipantJoined has stored the connection.
\* Stage "local": createOffer() and setLocalDescription(offer) on the peer
\* connection; on a connection closed by then they do not resolve and the
\* task ends. The simple manager then writes the offer (setDoc); the mesh
\* manager calls updateDoc on offers/{from}_{to}, a document nothing
\* creates. Stage "fallback": that updateDoc has rejected, the catch
\* handler calls addDoc without awaiting or returning its promise, so the
\* awaited chain resolves and listenForAnswer subscribes. Stage "adding":
\* the addDoc request reaches the database.
CreateOffer(k, t) ==
    LET ss == sess[k]
        o == OfferDoc(ss, t.doc)
        open == ss.conns[t.doc].gen = t.gen
    IN
    /\ t \in ss.tasks
    /\ CASE t.stage = "local" /\ ~open ->
              /\ sess' = [sess EXCEPT ![k] = [ss EXCEPT !.tasks = @ \ {t}]]
              /\ UNCHANGED offers
         [] t.stage = "local" /\ open /\ ss.variant = "simple" ->
              /\ offers' = {x \in offers : x.key # o.key} \cup {o}
              /\ sess' = [sess EXCEPT ![k] = [ss EXCEPT !.tasks = @ \ {t}]]
         [] t.stage = "local" /\ open /\ ss.variant = "mesh" ->
              /\ sess' = [sess EXCEPT ![k] =
                    [ss EXCEPT !.tasks = (@ \ {t}) \cup {[t EXCEPT !.stage = "fallback"]}]]
              /\ UNCHANGED offers
         [] t.stage = "fallback" ->
              /\ sess' = [sess EXCEPT ![k] =
                    [ss EXCEPT !.tasks = (@ \ {t}) \cup {[t EXCEPT !.stage = "adding"]},
                               !.watch = @ \cup {[doc |-> t.doc, gen |-> t.gen]}]]
              /\ UNCHANGED offers
         [] t.stage = "adding" ->
              /\ offers' = offers \cup {o}
              /\ sess' = [sess EXCEPT ![k] = [ss EXCEPT !.tasks = @ \ {t}]]
    /\ UNCHANGED <<pdocs, autoOwner, answers, nevict>>
    /\ UNCHANGED <<adminVars, page, candidates, joins>>

\* cleanup of either manager: every connection closed, the maps cleared,
\* the participants listener unsubscribed.
Released(ss) ==
    [ss EXCEPT !.status = "released", !.seen = {},
               !.conns = [d \in DocIds |-> NoLink],
               !.made = [d \in DocIds |-> 0]]

\* WebRTCMeshManager.leave: updateDoc on participants/{userId} comes first
\* and rejects when that document is absent; nothing after it runs then.
MeshLeave(k) ==
    /\ sess[k].status = "live" /\ sess[k].variant = "mesh"
    /\ sess' = [sess EXCEPT ![k] =
                  IF sess[k].user \in pdocs THEN Released(sess[k])
                  ELSE [sess[k] EXCEPT !.status = "leaked"]]
    /\ UNCHANGED <<pdocs, autoOwner, offers, answers, nevict>>
    /\ UNCHANGED <<adminVars, page, candidates, joins>>

\* SimpleWebRTCManager.cleanup
SimpleCleanup(k) ==
    /\ sess[k].status = "live" /\ sess[k].variant = "simple"
    /\ sess' = [sess EXCEPT ![k] = Released(sess[k])]
    /\ UNCHANGED <<pdocs, autoOwner, offers, answers, nevict>>
    /\ UNCHANGED <<adminVars, page, candidates, joins>>

\* A participant document is removed (the user disconnects or is evicted
\* by a moderator).
Evict(d) ==
    /\ d \in pdocs
    /\ nevict < MaxEvictions
    /\ nevict' = nevict + 1
    /\ pdocs' = pdocs \ {d}
    /\ UNCHANGED <<autoOwner, offers, answers, sess>>
    /\ UNCHANGED <<adminVars, page, candidates, joins>>

\* A scripted answer record for an offer of a mesh manager (the only one
\* that listens for answers): from and to are swapped.
ScriptAnswer(o) ==
    /\ o \in offers
    /\ o.key = "auto"
    /\ Cardinality(answers) < MaxAnswers
    /\ [from |-> o.to, to |-> o.from] \notin answers
    /\ answers' = answers \cup {[from |-> o.to, to |-> o.from]}
    /\ UNCHANGED <<pdocs, autoOwner, offers, sess, nevict>>
    /\ UNCHANGED <<adminVars, page, candidates, joins>>

\* if (connection && !connection.peerConnection.currentRemoteDescription)
MayApply(link) == link # NoLink /\ ~link.remote

\* The callback of the answer listener on a snapshot that holds an answer:
\* setRemoteDescription is called when the guard passes.
AnswerSnapshot(k, w) ==
    LET ss == sess[k]
        link == ss.conns[w.doc]
    IN
    /\ w \in ss.watch
    /\ [from |-> w.doc, to |-> ss.user] \in answers
    /\ MayApply(link)
    /\ link.calls < MaxSetRemote
    /\ sess' = [sess EXCEPT ![k] =
                  [ss EXCEPT !.conns[w.doc].calls = @ + 1,
                             !.applying = @ \cup {[doc |-> w.doc, gen |-> link.gen,
                                                    w |-> w, n |-> link.calls + 1]}]]
    /\ UNCHANGED <<pdocs, autoOwner, offers, answers, nevict>>
    /\ UNCHANGED <<adminVars, page, candidates, joins>>

\* setRemoteDescription settles. It resolves on an open connection that
\* awaits an answer, and the listener is unsubscribed; on a closed
\* connection, or once an answer has been applied, it rejects.
ApplyDone(k, ap) ==
    LET ss == sess[k]
        link == ss.conns[ap.doc]
    IN
    /\ ap \in ss.applying
    /\ sess' = [sess EXCEPT ![k] =
                  IF link.gen = ap.gen /\ ~link.remote
                  THEN [ss EXCEPT !.conns[ap.doc].remote = TRUE,
                                  !.applying = @ \ {ap},
                                  !.watch = @ \ {ap.w}]
                  ELSE [ss EXCEPT !.applying = @ \ {ap}]]
    /\ UNCHANGED <<pdocs, autoOwner, offers, answers, nevict>>
    /\ UNCHANGED <<adminVars, page, candidates, joins>>

\* The administrative state, at rest while the room is explored.
AdminAtRest ==
    /\ meeting = AbsentMeeting
    /\ spaces = [s \in SpaceIds |-> [exists |-> TRUE, activeMeeting |-> TRUE,
                                     members |-> {"u1"}]]
    /\ users = [u \in UserIds |->
                  [exists |-> u \notin NoDocument, email |-> EmailOf(u),
                   pendingSpaces |-> {}, hiddenMeetings |-> <<>>]]
    /\ calls = [a \in Admins |-> IdleCall @@ [admin |-> a]]
    /\ ncalls = 0

InitRtc == AdminAtRest /\ RtcIdle

\* Membership: joins, the participants listener, leaves.
NextRtc ==
    \/ \E u \in Peers : MeshInitialize(u, MaxSessions)
    \/ \E u \in Peers : SimpleInitialize(u, MaxSessions)
    \/ \E k \in Sessions, d \in DocIds : DeliverAdded(k, d)
    \/ \E k \in Sessions, d \in DocIds : DeliverRemoved(k, d)
    \/ \E k \in Sessions : MeshLeave(k)
    \/ \E k \in Sessions : SimpleCleanup(k)
    \/ \E d \in DocIds : Evict(d)

SpecRtc == InitRtc /\ [][NextRtc]_vars

\* Membership and signaling: the offers the managers write, scripted
\* answers, the answer listener.
NextSignal ==
    \/ \E u \in Peers : MeshInitialize(u, MaxSignalSessions)
    \/ \E u \in Peers : SimpleInitialize(u, MaxSignalSessions)
    \/ \E k \in Sessions, d \in DocIds : DeliverAdded(k, d)
    \/ \E k \in Sessions, d \in DocIds : DeliverRemoved(k, d)
    \/ \E k \in Sessions : MeshLeave(k)
    \/ \E k \in Sessions : SimpleCleanup(k)
    \/ \E d \in DocIds : Evict(d)
    \/ \E k \in Sessions : \E t \in sess[k].tasks : CreateOffer(k, t)
    \/ \E o \in offers : ScriptAnswer(o)
    \/ \E k \in Sessions : \E w \in sess[k].watch : AnswerSnapshot(k, w)
    \/ \E k \in Sessions : \E ap \in sess[k].applying : ApplyDone(k, ap)

SpecSignal == InitRtc /\ [][NextSignal]_vars

\* Three participants negotiating with the simple manager: joins, the
\* participants listener, the offers the managers write.
NextOffers ==
    \/ \E u \in AllPeers : SimpleInitialize(u, MaxSessions)
    \/ \E k \in Sessions, d \in DocIds : DeliverAdded(k, d)
    \/ \E k \in Sessions : \E t \in sess[k].tasks : CreateOffer(k, t)

SpecOffers == InitRtc /\ [][NextOffers]_vars

----------------------------------------------------------------------------
(* The VirtualSpace page: startOrJoinCall.                                 *)

\* The properties of the object WebRTCMeshManager.initialize returns.
MeshHandleFields ==
    {"roomId", "spaceId", "localStream", "connections", "participants", "unsubscribe"}

\* The properties of the object SimpleWebRTCManager.initialize returns.
SimpleHandleFields ==
    {"roomId", "spaceId", "localStream", "remoteStreams", "participants", "unsubscribe"}

\* handles.m(...) returns; it throws a TypeError when the handle object has
\* no property m.
HasMethod(fields, m) == m \in fields

\* startOrJoinCall from the click to the end of its try block, or to the
\* await of createSimpleRoom in its catch block. The button is rendered
\* while isInCall is false.
PageCreateMeshRoom(u) ==
    LET pg == page[u]
        streamsOk == HasMethod(MeshHandleFields, "getRemoteStreams")
        countOk == HasMethod(MeshHandleFields, "getParticipantCount")
    IN
    /\ pg.pc = "idle" /\ ~pg.isInCall
    /\ Len(sess) + 2 <= MaxPageSessions
    /\ \E ok \in BOOLEAN :
         IF ok
         THEN /\ MeshRoom(u)
              /\ page' = [page EXCEPT ![u] =
                    [pg EXCEPT !.mesh = Len(sess) + 1,
                               !.meshBuilt = TRUE,
                               !.simpleBuilt = FALSE,
                               !.isInCall = IF streamsOk THEN TRUE ELSE @,
                               !.toast = IF streamsOk /\ countOk THEN "Joined meeting" ELSE @,
                               !.pc = IF streamsOk /\ countOk THEN "idle" ELSE "fallback"]]
         ELSE /\ page' = [page EXCEPT ![u] =
                    [pg EXCEPT !.meshBuilt = FALSE, !.simpleBuilt = FALSE,
                               !.pc = "fallback"]]
              /\ UNCHANGED <<pdocs, autoOwner, sess>>
    /\ UNCHANGED <<offers, answers, nevict>>
    /\ UNCHANGED <<adminVars, candidates, joins>>

\* The catch block of startOrJoinCall from the return of createSimpleRoom.
\* When setDoc rejects, initialize throws with its participants listener
\* subscribed.
PageCreateSimpleRoom(u) ==
    LET pg == page[u]
        streamsOk == HasMethod(SimpleHandleFields, "getRemoteStreams")
        callbackOk == HasMethod(SimpleHandleFields, "setOnStreamsChanged")
    IN
    /\ pg.pc = "fallback"
    /\ \E ok \in BOOLEAN :
         IF ok
         THEN /\ SimpleRoom(u)
              /\ page' = [page EXCEPT ![u] =
                    [pg EXCEPT !.simple = Len(sess) + 1,
                               !.simpleBuilt = TRUE,
                               !.isInCall = IF streamsOk /\ callbackOk THEN TRUE ELSE @,
                               !.toast = IF streamsOk /\ callbackOk
                                         THEN "Joined meeting (Simple Mode)"
                                         ELSE "Call failed",
                               !.pc = "idle"]]
         ELSE /\ sess' = Append(sess, NewSession(u, "simple"))
              /\ page' = [page EXCEPT ![u] =
                    [pg EXCEPT !.toast = "Call failed", !.pc = "idle"]]
              /\ UNCHANGED pdocs
    /\ UNCHANGED <<autoOwner, offers, answers, nevict>>
    /\ UNCHANGED <<adminVars, candidates, joins>>

NextPage ==
    \/ \E u \in Peers : PageCreateMeshRoom(u)
    \/ \E u \in Peers : PageCreateSimpleRoom(u)

SpecPage == InitRtc /\ [][NextPage]_vars

\* ---------------------------------------------------------------------
\* Properties of the room managers.

\* Two participants, one live manager each, no document removed, and
\* both listeners have delivered every participant document.
TwoJoinedAndSettled ==
    /\ Len(sess) = 2
    /\ sess[1].user # sess[2].user
    /\ nevict = 0
    /\ \A k \in Sessions : sess[k].status = "live" /\ sess[k].seen = pdocs

\* The users (other than the local one) a manager holds a connection to,
\* by connections-map key.
LinksTo(ss, p) == {d \in Linked(ss) : DocUser(d) = p}

\* C7: when two participants have joined the same room, in either order,
\* each manager's connections map holds exactly one entry, and it is a
\* connection to the other participant.
C7_OneLinkEach ==
    TwoJoinedAndSettled =>
        \A k \in Sessions :
            /\ Cardinality(Linked(sess[k])) = 1
            /\ \A d \in Linked(sess[k]) : DocUser(d) # sess[k].user

\* C8: across joins, leaves and re-joins, a live manager never holds two
\* open connections to the same other participant.
C8_AtMostOneLinkPerPair ==
    \A k \in Sessions :
        sess[k].status = "live" =>
            \A p \in Peers \ {sess[k].user} :
                Cardinality(LinksTo(sess[k], p)) <= 1

\* A step in which manager k handles a 'removed' change for document d.
IsLeftEvent(k, d) ==
    /\ Len(sess') = Len(sess)
    /\ sess'[k].status = sess[k].status
    /\ d \in sess[k].seen
    /\ sess'[k].seen = sess[k].seen \ {d}

\* C9: a participant-left event for id d closes and removes the
\* connection stored under d, and leaves every other entry of the
\* connections map, and its peer connection, as it was.
C9_LeftClosesOnlyThatLink ==
    [][\A k \in Sessions : \A d \in DocIds :
          IsLeftEvent(k, d) =>
              /\ sess'[k].conns[d] = NoLink
              /\ \A e \in DocIds \ {d} : sess'[k].conns[e] = sess[k].conns[e]]_vars

\* A manager has handled a 'removed' change for a document it held a
\* connection to, and still holds a connection to another one.
C9_Witness ==
    \E k \in Sessions : \E d \in DocIds :
        /\ sess[k].status = "live"
        /\ sess[k].made[d] > 0
        /\ d \notin sess[k].seen
        /\ sess[k].conns[d] = NoLink
        /\ \E e \in DocIds \ {d} : sess[k].conns[e] # NoLink

\* C10: setRemoteDescription is called at most once on the peer connection
\* to another participant, however often the answer listener fires.
C10_AnswerAppliedOnce ==
    \A k \in Sessions : \A d \in Linked(sess[k]) :
        DocUser(d) # sess[k].user => sess[k].conns[d].calls <= 1

\* C11: once leave / cleanup has been called on a manager, its
\* participants listener and every answer listener are unsubscribed, every
\* peer connection is closed and the connections map is empty.
C11_LeaveReleasesEverything ==
    \A k \in Sessions :
        sess[k].status # "live" =>
            /\ ~Subscribed(sess[k])
            /\ sess[k].watch = {}
            /\ Linked(sess[k]) = {}

\* C12: when startOrJoinCall has run to its end and its mesh room
\* construction succeeded, the call is joined through mesh (isInCall,
\* 'Joined meeting') and no simple room was constructed.
C12_SimpleOnlyAfterMeshError ==
    \A u \in Peers :
        page[u].pc = "idle" /\ page[u].meshBuilt =>
            /\ page[u].isInCall
            /\ page[u].toast = "Joined meeting"
            /\ ~page[u].simpleBuilt

\* C13: an offer record leaves the offers collection only when an offer of
\* the same directed pair (from, to) takes its place; it is never
\* overwritten by the offer of a different pair.
C13_OffersKeyedByPair ==
    [][\A o \in offers :
          o \notin offers' =>
              \E n \in offers' : n.from = o.from /\ n.to = o.to]_vars

\* C14: join handling runs only for participant records of other users:
\* no manager holds a connection made for a record of its own user.
C14_NoLinkToOwnRecord ==
    \A k \in Sessions : \A d \in Linked(sess[k]) : DocUser(d) # sess[k].user

\* C15: a manager issues the write of an offer record for another
\* participant (addDoc in the catch handler of the mesh manager's
\* createOffer) only while the peer connection the offer was created on is
\* in its connections map, not after it has been closed.
C15_NoOfferAfterClose ==
    [][\A k \in Sessions : \A t \in sess[k].tasks :
          (/\ t.stage = "fallback"
           /\ t \notin sess'[k].tasks
           /\ DocUser(t.doc) # sess[k].user)
          => sess[k].conns[t.doc].gen = t.gen]_vars

\* The user of manager k has left the room: leave / cleanup has run on k
\* and the user has no other manager in the call.
HasLeft(k) ==
    /\ sess[k].status # "live"
    /\ \A j \in Sessions : sess[j].user = sess[k].user => sess[j].status # "live"

\* C16: once a user has left the room, the participants collection holds
\* no record of that user.
C16_LeaveRemovesRecord ==
    \A k \in Sessions :
        HasLeft(k) => \A d \in pdocs : DocUser(d) # sess[k].user

\* ---------------------------------------------------------------------
\* Further properties of the administrative operations.

\* The action kind of the audit entry of an operation.
AuditKind(op) ==
    CASE op = "end" -> "end_meeting"
      [] op = "delete" -> "delete_meeting"
      [] OTHER -> "remove_attendee"

\* The adminActions list of the meeting record holds the entry of call c.
HasAuditEntry(c) ==
    /\ meeting.exists
    /\ \E n \in 1..Len(meeting.adminActions) :
          /\ meeting.adminActions[n].action = AuditKind(c.op)
          /\ meeting.adminActions[n].adminId = c.admin
          /\ meeting.adminActions[n].stamp = c.stamp

\* C17: an administrative operation that reports success has recorded
\* its audit entry in the adminActions list of the meeting record.
C17_SuccessHasAuditEntry ==
    \A a \in Admins :
        calls[a].pc = "done" /\ calls[a].result.success => HasAuditEntry(calls[a])

\* Call c is about to write or delete the meeting or the space record.
AtRecordWrite(c) ==
    c.pc \in {"updateMeeting", "updateSpace", "deleteMeeting", "deleteSpace"}

\* C18: when an operation comes to write or delete the meeting or space
\* record, it has already attempted the dashboard update of every affected
\* user (the removed attendee's, for removeAttendeeFromMeeting, which
\* looks the user up only after its meeting write).
C18_UsersBeforeRecords ==
    \A a \in Admins :
        LET c == calls[a] IN
        AtRecordWrite(c) =>
            /\ c.op # "remove"
            /\ Range(c.attempts) = UserSet(c)

\* C19 as stated: a call in which a database read or write failed, the
\* reads and writes of the dashboard loop included, ends with
\* success=false and a message.
C19_AnyFailureReported ==
    \A a \in Admins :
        LET c == calls[a] IN
        (c.pc = "done" /\ c.failed # <<>>) =>
            ~c.result.success /\ c.result.message # ""

\* The effects a call has made when none of its reads and writes outside
\* the dashboard loop failed.
RecordsWritten(c) ==
    CASE c.op = "end" ->
            /\ meeting.exists /\ meeting.status = "ended"
            /\ c.spaceId # NoSpace => ~spaces[c.spaceId].activeMeeting
      [] c.op = "delete" ->
            /\ ~meeting.exists
            /\ c.spaceId # NoSpace => ~spaces[c.spaceId].exists
      [] OTHER ->
            /\ meeting.exists /\ c.target \notin Range(meeting.attendees)
            /\ FoundUsers(c.svc, c.target) # {} => c.updates # <<>>

\* C19, amended: no call ends with an error instead of a result; a call
\* that ends without all its records written (a read or write outside the
\* dashboard loop failed, or the meeting is absent) returns success=false
\* with 'Meeting not found' or the operation's failure message; and
\* 'Meeting not found' is returned with the meeting absent and nothing
\* written or deleted by the call.
C19_FailureReported ==
    \A a \in Admins :
        LET c == calls[a] IN
        /\ c.pc # "threw"
        /\ c.pc = "done" =>
              /\ c.result.message # ""
              /\ ~c.result.success =>
                    c.result.message \in {"Meeting not found", FailureMessage(c.op)}
              /\ c.result.success => RecordsWritten(c)
              /\ c.result.message = "Meeting not found" =>
                    /\ ~c.result.success
                    /\ ~meeting.exists
                    /\ ~c.wroteMeeting /\ c.updates = <<>> /\ c.attempts = <<>>

\* A call failed after its meeting write (a later read or write was
\* rejected) and returned success=false with the operation's message.
C19_Witness ==
    \E a \in Admins :
        LET c == calls[a] IN
        /\ c.pc = "done" /\ ~c.result.success
        /\ c.result.message = FailureMessage(c.op)
        /\ c.wroteMeeting

\* The users whose dashboard update a call issued and saw resolve.
UpdateSucceeded(c) == Range(c.updates) \ Range(c.failed)

\* C20: a call of endMeetingForAllUsers or deleteMeetingCompletely whose
\* meeting write, and space write when the meeting has a space, went
\* through returns success=true however many user updates failed, and the
\* affectedUsers of a successful call are exactly the users whose update
\* succeeded.
C20_SuccessDespiteUserFailures ==
    \A a \in Admins :
        LET c == calls[a] IN
        (c.op \in {"end", "delete"} /\ c.pc = "done") =>
            /\ (c.wroteMeeting /\ (c.spaceId # NoSpace => c.wroteSpace)) => c.result.success
            /\ c.result.success =>
                  /\ Range(c.result.affectedUsers) = UpdateSucceeded(c)
                  /\ Len(c.result.affectedUsers) = Cardinality(UpdateSucceeded(c))

\* A call returned success although the update of one user failed and that
\* of another went through.
C20_Witness ==
    \E a \in Admins :
        LET c == calls[a] IN
        /\ c.op \in {"end", "delete"} /\ c.pc = "done" /\ c.result.success
        /\ c.failed # <<>>
        /\ c.result.affectedUsers # <<>>

-----------------------------------------------------------------------------
(* Two administrators at once. Nothing serialises the services: each call  *)
(* is a chain of awaited database requests, and the requests of two calls  *)
(* made from two browsers interleave freely.                               *)

\* One administrator invokes a service while the other's call may be running.
StartConcurrent(a, op, svc, target) ==
    /\ ncalls < MaxCalls
    /\ calls[a].pc = "idle"
    /\ ncalls' = ncalls + 1
    /\ calls' = [calls EXCEPT ![a] =
                   [IdleCall @@ [admin |-> a] EXCEPT
                      !.op = op, !.svc = svc, !.pc = "readMeeting",
                      !.target = target, !.stamp = ncalls + 1,
                      !.preAttendees = meeting.attendees]]
    /\ UNCHANGED <<meeting, spaces, users>>
    /\ UNCHANGED rtcVars

\* A meeting with two attendees and a space, as the admin panel lists it.
InitRace ==
    /\ InitAdmin
    /\ RtcIdle
    /\ meeting.attendees = <<"u1", "u2">>
    /\ meeting.creatorId = "u1"
    /\ meeting.spaceId = "s1"

NextRace ==
    \E a \in Admins :
        \/ StartConcurrent(a, "end", "client", "u1")
        \/ StartConcurrent(a, "delete", "client", "u1")
        \/ \E svc \in {"client", "control"}, target \in {"u1", "u2"} :
              StartConcurrent(a, "remove", svc, target)
        \/ ReadMeeting(a)
        \/ UpdateMeeting(a)
        \/ UpdateSpace(a)
        \/ UserRead(a)
        \/ UserWrite(a)
        \/ DeleteMeeting(a)
        \/ DeleteSpace(a)
        \/ RemoveUserRead(a)
        \/ RemoveUserWrite(a)

SpecRace == InitRace /\ [][NextRace]_vars

\* Both calls have returned success.
BothSucceeded ==
    \A a \in Admins : calls[a].pc = "done" /\ calls[a].result.success

\* C21: two concurrent administrative calls can lose an update of a user
\* record. Every user write of the dashboard loop stores what the call
\* computed from its own earlier read of the document, whatever the document
\* holds by the time of the write; so the write of the slower call replaces
\* the write of the faster one.
C21_WriteFromOwnRead ==
    [][\A a \in Admins :
         (calls[a].pc = "userWrite" /\ users' # users /\ calls'[a] # calls[a])
         => LET u == calls[a].userDoc IN
            /\ users'[u].pendingSpaces =
                 UpdatedPendingSpaces(calls[a].userData.pendingSpaces, calls[a].spaceId)
            /\ users'[u].hiddenMeetings =
                 UpdatedHiddenMeetings(calls[a].userData.hiddenMeetings, calls[a].spaceId)]_vars

\* Both calls report success and list u1 as affected, yet u1's hiddenMeetings
\* holds the marker of one call only.
C21_Witness ==
    /\ BothSucceeded
    /\ \A a \in Admins : calls[a].op \in {"end", "delete"} /\ "u1" \in Range(calls[a].affected)
    /\ Count(users["u1"].hiddenMeetings, "s1") = 1

\* C29: when two removeAttendeeFromMeeting calls for two different attendees
\* of the meeting have both returned success, the attendee list of the meeting
\* holds neither of the two.
C29_BothRemoved ==
    (/\ BothSucceeded
     /\ \A a \in Admins : calls[a].op = "remove"
     /\ calls["adm1"].target # calls["adm2"].target)
    => \A a \in Admins : calls[a].target \notin Range(meeting.attendees)

-----------------------------------------------------------------------------
(* Signaling: the order of the offer write and the answer watch. *)

\* C22: an answer watch of a session for a remote participant is open only
\* while the offer of that session to that participant is in the offers
\* collection: the offer (from = local, to = remote) is written first and the
\* watch is opened after it.
C22_WatchOnlyAfterOffer ==
    \A k \in 1..Len(sess) : \A w \in sess[k].watch :
        \E o \in offers : o.from = sess[k].user /\ o.to = w.doc

-----------------------------------------------------------------------------
(* ICE candidates. *)

\* setLocalDescription has resolved on the connection a manager holds for
\* participant document d, so the connection gathers candidates.
LocalDescriptionSet(ss, d) ==
    /\ d \in Linked(ss)
    /\ \A t \in ss.tasks : ~(t.doc = d /\ t.gen = ss.conns[d].gen /\ t.stage = "local")

\* peerConnection.onicecandidate -> sendIceCandidate: addDoc to the
\* candidates collection with from = currentUserId, to = participantId.
SendIceCandidate(k, d) ==
    LET c == [from |-> sess[k].user, to |-> d] IN
    /\ sess[k].status # "released"
    /\ LocalDescriptionSet(sess[k], d)
    /\ c \notin candidates
    /\ candidates' = candidates \cup {c}
    /\ UNCHANGED <<pdocs, autoOwner, offers, answers, sess, nevict, page>>
    /\ UNCHANGED <<adminVars, joins>>

\* The callback of the candidates watch of listenForIceCandidates:
\* addIceCandidate on the connection held for the sender. Only the mesh
\* manager defines the watch, and nothing calls listenForIceCandidates, so
\* no step of a manager is an instance of this operator.
IceCandidateAdded(ss, c) ==
    IF c.from \in Linked(ss) THEN [ss EXCEPT !.iceApplied = @ \cup {c}] ELSE ss

\* Candidate exchange: joins, the participants listener, offers, candidates
\* and leaves (which delete no participant document).
NextIce ==
    \/ \E u \in Peers : MeshInitialize(u, MaxIceSessions)
    \/ \E u \in Peers : SimpleInitialize(u, MaxIceSessions)
    \/ \E k \in Sessions, d \in DocIds : DeliverAdded(k, d)
    \/ \E k \in Sessions : MeshLeave(k)
    \/ \E k \in Sessions : SimpleCleanup(k)
    \/ \E k \in Sessions : \E t \in sess[k].tasks : CreateOffer(k, t)
    \/ \E k \in Sessions, d \in DocIds : SendIceCandidate(k, d)

SpecIce == InitRtc /\ [][NextIce]_vars

\* No manager has a step left: every participant document has been delivered
\* to every subscribed listener and no createOffer is in progress.
IceAtRest ==
    \A k \in Sessions :
        /\ sess[k].tasks = {}
        /\ Subscribed(sess[k]) => sess[k].seen = pdocs

\* C23: every candidate record (from = p, to = q) of the candidates
\* collection gets applied by q's manager to its connection for p while q
\* holds that connection: once the managers have no step left, a live
\* manager of q that holds a connection to p has applied the record.
C23_CandidatesApplied ==
    IceAtRest =>
        \A c \in candidates : \A k \in Sessions :
            (/\ sess[k].status = "live"
             /\ sess[k].user = DocUser(c.to)
             /\ LinksTo(sess[k], c.from) # {})
            => c \in sess[k].iceApplied

-----------------------------------------------------------------------------
(* The responder side of the negotiation. *)

\* C24: whatever joins and leaves happen, in either variant, no manager
\* writes an answer record: the answers collection stays empty, so no answer
\* watch finds an answer (no setRemoteDescription is in progress) and no
\* connection gets a remote description.
C24_ResponderDead ==
    /\ answers = {}
    /\ \A k \in Sessions :
         /\ sess[k].applying = {}
         /\ \A d \in DocIds : ~sess[k].conns[d].remote /\ sess[k].conns[d].calls = 0

\* Two mesh managers have exchanged offers and both wait for an answer.
C24_Witness ==
    /\ TwoJoinedAndSettled
    /\ \A k \in Sessions :
         /\ sess[k].tasks = {} /\ sess[k].watch # {}
         /\ \E o \in offers : o.from = sess[k].user

-----------------------------------------------------------------------------
(* The meeting page: handleJoinMeeting. Each awaited database call is a    *)
(* step; the catch block logs the error and the page stays where it is.    *)

\* The room and call state, untouched by the meeting page.
roomVars == <<pdocs, autoOwner, offers, answers, sess, nevict, page, candidates>>

\* A meeting without a space: no space document exists yet.
InitJoin ==
    /\ meeting = [exists |-> TRUE, attendees |-> <<"u1", "u2">>, creatorId |-> "u1",
                  spaceId |-> NoSpace, status |-> "scheduled", adminActions |-> <<>>]
    /\ spaces = [s \in SpaceIds |-> [exists |-> FALSE, activeMeeting |-> FALSE,
                                     members |-> {}]]
    /\ users = [u \in UserIds |->
                  [exists |-> u \notin NoDocument, email |-> EmailOf(u),
                   pendingSpaces |-> {}, hiddenMeetings |-> <<>>]]
    /\ calls = [a \in Admins |-> IdleCall @@ [admin |-> a]]
    /\ ncalls = 0
    /\ RtcIdle

\* useDocumentData(meetingDocRef): the listener delivers the meeting document
\* as it is now and the page renders with it.
JoinSnapshot(u) ==
    /\ meeting.exists
    /\ joins[u].seen # meeting.spaceId
    /\ joins' = [joins EXCEPT ![u].seen = meeting.spaceId]
    /\ UNCHANGED <<adminVars, roomVars>>

\* Join is clicked: let spaceId = meetingData.spaceId; if (!spaceId) ...
JoinStart(u) ==
    /\ joins[u].pc = "idle"
    /\ joins' = [joins EXCEPT ![u].pc = IF joins[u].seen = NoSpace THEN "addSpace"
                                        ELSE "addMember",
                              ![u].spaceId = joins[u].seen]
    /\ UNCHANGED <<adminVars, roomVars>>

\* addDoc(collection(db, 'spaces'), {..., members: [user.uid]}); spaceId = spaceRef.id
JoinAddSpace(u) ==
    /\ joins[u].pc = "addSpace"
    /\ \/ \E s \in SpaceIds :
            /\ ~spaces[s].exists
            /\ spaces' = [spaces EXCEPT ![s] =
                            [exists |-> TRUE, activeMeeting |-> FALSE, members |-> {u}]]
            /\ joins' = [joins EXCEPT ![u].pc = "setMeeting", ![u].spaceId = s]
       \/ /\ joins' = [joins EXCEPT ![u].pc = "failed"]
          /\ UNCHANGED spaces
    /\ UNCHANGED <<meeting, users, calls, ncalls, roomVars>>

\* updateDoc(doc(db, 'meetings', meetingId), {spaceId}); then the redirect.
JoinSetMeeting(u) ==
    /\ joins[u].pc = "setMeeting"
    /\ \E ok \in BOOLEAN :
         IF ok /\ meeting.exists
         THEN /\ meeting' = [meeting EXCEPT !.spaceId = joins[u].spaceId]
              /\ joins' = [joins EXCEPT ![u].pc = "done", ![u].redirect = joins[u].spaceId]
         ELSE /\ joins' = [joins EXCEPT ![u].pc = "failed"]
              /\ UNCHANGED meeting
    /\ UNCHANGED <<spaces, users, calls, ncalls, roomVars>>

\* updateDoc(doc(db, 'spaces', spaceId), {members: arrayUnion(user.uid)});
\* then the redirect.
JoinAddMember(u) ==
    LET s == joins[u].spaceId IN
    /\ joins[u].pc = "addMember"
    /\ \E ok \in BOOLEAN :
         IF ok /\ spaces[s].exists
         THEN /\ spaces' = [spaces EXCEPT ![s].members = @ \cup {u}]
              /\ joins' = [joins EXCEPT ![u].pc = "done", ![u].redirect = s]
         ELSE /\ joins' = [joins EXCEPT ![u].pc = "failed"]
              /\ UNCHANGED spaces
    /\ UNCHANGED <<meeting, users, calls, ncalls, roomVars>>

NextJoin ==
    \E u \in Joiners :
        \/ JoinSnapshot(u)
        \/ JoinStart(u)
        \/ JoinAddSpace(u)
        \/ JoinSetMeeting(u)
        \/ JoinAddMember(u)

SpecJoin == InitJoin /\ [][NextJoin]_vars

\* The space documents that exist.
ExistingSpaces == {s \in SpaceIds : spaces[s].exists}

\* C25: when the two users have both joined a meeting that had no space,
\* exactly one space has been created for it, and both users were redirected
\* to that space, the one stored in the meeting's spaceId.
C25_OneSpaceForBoth ==
    (\A u \in Joiners : joins[u].pc = "done")
    => /\ Cardinality(ExistingSpaces) = 1
       /\ \A u \in Joiners : joins[u].redirect = meeting.spaceId

-----------------------------------------------------------------------------
(* The call state of the page. *)

\* C26: while neither startOrJoinCall nor endCall is running on a page,
\* isInCall is true exactly when one of the two room handle refs is set; no
\* handle is held while isInCall is false, and the mesh and the simple handle
\* are never held together.
C26_InCallIffOneHandle ==
    \A u \in Peers :
        page[u].pc = "idle" =>
            LET held == {r \in {"mesh", "simple"} : page[u][r] # 0} IN
            /\ page[u].isInCall <=> Cardinality(held) = 1
            /\ ~page[u].isInCall => held = {}
            /\ Cardinality(held) < 2

-----------------------------------------------------------------------------
(* The administrative actions: failure, frame and repetition. *)

\* C27: a call that has returned success = false has written or deleted no
\* meeting, space or user document.
C27_FailureLeavesDatabase ==
    \A a \in Admins :
        (calls[a].pc = "done" /\ ~calls[a].result.success)
        => /\ ~calls[a].wroteMeeting
           /\ ~calls[a].wroteSpace
           /\ calls[a].affected = <<>>

C30_HiddenOnce ==
    \A u \in UserIds : \A s \in SpaceIds : Count(users[u].hiddenMeetings, s) <= 1
====
